---- MODULE Spec2Model ----
(***************************************************************************)
(* Tool-availability gating of the example agent applications.             *)
(*                                                                         *)
(*   Research  (example_apps/Research/research.py, and the identical       *)
(*              gating code of GettingStarted/Research/research.py)        *)
(*   Code      (example_apps/Code/code.py)                                 *)
(*                                                                         *)
(* Each application is one stateful object per session.  The host runtime  *)
(* evaluates a tool's predicate and, when it holds, runs the tool method.  *)
(* Python strings that the code inspects are sequences of one-character    *)
(* strings; time.time() is an integer number of seconds.                   *)
(***************************************************************************)
EXTENDS Integers, Sequences, FiniteSets, TLC

VARIABLES
    now,                      \* the wall clock read by time.time()
    started,                  \* Research: the on_app_start hook has run
    asked_followup,           \* Research.asked_followup
    start_time,               \* Research.start_time
    notepad,                  \* Research.notepad
    responds,                 \* Research: RespondToUser invocations so far (history, saturating)
    respond_at,               \* Research: the time of the latest RespondToUser invocation, -1 if none (history)
    last,                     \* Research: the latest tool invocation and how it ended
    can_call_external_model,  \* Code.can_call_external_model
    failures,                 \* Code.failures
    globals,                  \* hyphae.store.globals, the persistent key-value store
    cret,                     \* Code: the latest tool invocation, its argument and result
    fs,                       \* Code: the files of the container, path -> content
    selected_paper,           \* ArxivApp.selected_paper
    paper_content,            \* ArxivApp.paper_content
    ever_selected,            \* Arxiv: some SelectPaper call has stored a paper (history)
    content_loaded_for,       \* Arxiv: the id paper_content was loaded for (history)
    aret,                     \* Arxiv: the latest tool invocation and its result
    search_results,           \* RealtorApp.search_results
    zret,                     \* Realtor: the latest tool invocation and its result
    app,                      \* the application class handed to hyphae.run
    invocation,               \* the latest tool invocation as the host sees it
    pending,                  \* dispatches whose predicate was evaluated and whose body has not run
    taken,                    \* Research: the notes taken since the notepad was last cleared (history)
    compress_next_context,    \* the module global of the Research copies
    hook                      \* the latest build_context_override call: its input and what it returned

rvars == <<now, started, asked_followup, start_time, notepad, responds, respond_at, last>>
cvars == <<can_call_external_model, failures, globals, cret, fs>>
avars == <<selected_paper, paper_content, ever_selected, content_loaded_for, aret>>
zvars == <<search_results, zret>>
hvars == <<compress_next_context, hook>>
vars == <<now, started, asked_followup, start_time, notepad, responds, respond_at, last,
          can_call_external_model, failures, globals, cret, fs,
          selected_paper, paper_content, ever_selected, content_loaded_for, aret,
          search_results, zret, app, invocation, pending,
          taken, compress_next_context, hook>>

----------------------------------------------------------------------------
(* Bounds of the model *)

MaxTime == 720
MaxNotepadLen == 4
MaxResponds == 3
MaxFailures == 3
MaxPending == 2

\* the amounts by which the clock is observed to advance between two steps
TickSteps == {60, 150}

\* notes handed to TakeNote
Notes == { <<"a">>, <<"b", "c">> }

\* file lists handed to Research.RespondToUser
FileLists == { <<>>, <<"/root/report.md">> }

----------------------------------------------------------------------------
(* Research: state and predicates *)

min_duration == 5 * 60

\* outcomes a tool invocation can have, as the host sees them
Returned == "returned"
ErrorText == "error_text"
Raised == "raised"

NoCall == [tool |-> "none", kind |-> Returned]

\* what the host sees of a tool invocation: the tool, the number of outbound
\* external calls (HTTP request, client-library request, model call, upload,
\* subprocess) the method made, and whether an exception left the method
Invocation(tool, n, exc) == [tool |-> tool, calls |-> n, raised |-> exc]

HostInit ==
    /\ invocation = Invocation("none", 0, FALSE)
    /\ pending = <<>>

ResearchInit ==
    /\ now = 0
    /\ started = FALSE
    /\ notepad = <<>>
    /\ asked_followup = FALSE
    /\ start_time = now
    /\ responds = 0
    /\ respond_at = -1
    /\ last = NoCall
    /\ taken = <<>>

\* variant: full access waits for the minimum duration as well
has_full_tool_access_TimeGated ==
    asked_followup /\ min_duration < (now - start_time)

has_full_tool_access == asked_followup

\* variant: the elapsed time is not consulted
can_respond_to_user_NoTimeGate == has_full_tool_access

\* variant: the comparison with min_duration is inclusive
can_respond_to_user_Inclusive ==
    has_full_tool_access /\ min_duration <= (now - start_time)

can_respond_to_user ==
    has_full_tool_access /\ min_duration < (now - start_time)

\* variant: the predicate lacks its "or asked_followup == False" disjunct
RespondToUserPred_TimeGateOnly == (can_respond_to_user = TRUE)

RespondToUserPred ==
    (can_respond_to_user = TRUE) \/ (asked_followup = FALSE)

PerplexitySearchPred == has_full_tool_access
\* variant: the note tool is gated like the response tool
TakeNotePred_TimeGated == can_respond_to_user

TakeNotePred == has_full_tool_access
ReadNotesPred == has_full_tool_access
WebSearchPred == has_full_tool_access
SearchNewsArticlesPred == has_full_tool_access
FindRelatedKeywordsPred == has_full_tool_access
GoogleTrendsPred == has_full_tool_access
WriteFilePred == has_full_tool_access
ReadFilePred == has_full_tool_access
ExecuteCommandPred == has_full_tool_access

----------------------------------------------------------------------------
(* Research: the clock and the lifecycle hook *)

Tick ==
    /\ \E d \in TickSteps :
          /\ now + d <= MaxTime
          /\ now' = now + d
    /\ UNCHANGED <<started, asked_followup, start_time, notepad, responds, respond_at, last>>
    /\ UNCHANGED <<invocation, pending>>
    /\ UNCHANGED <<app, cvars, avars, zvars, hvars, taken>>

on_app_start ==
    /\ ~started
    /\ started' = TRUE
    /\ start_time' = now
    /\ UNCHANGED <<now, asked_followup, notepad, responds, respond_at, last>>
    /\ UNCHANGED <<invocation, pending>>
    /\ UNCHANGED <<app, cvars, avars, zvars, hvars, taken>>

----------------------------------------------------------------------------
(* Research: tool methods.  XBody is the method body, X the dispatch by the *)
(* host: the predicate holds, then the body runs.                           *)

Min(a, b) == IF a < b THEN a ELSE b

\* variant: the state is updated after the upload, so a failed upload skips it
RespondToUserBody_UpdateAfterUpload(files, upload_ok) ==
    LET fails == Len(files) > 0 /\ ~upload_ok IN
    /\ asked_followup' = IF fails THEN asked_followup ELSE TRUE
    /\ start_time' = IF fails THEN start_time ELSE now
    /\ responds' = Min(responds + 1, MaxResponds)
    /\ respond_at' = now
    /\ last' = [tool |-> "RespondToUser", kind |-> IF fails THEN Raised ELSE Returned]
    /\ invocation' = Invocation("RespondToUser", IF Len(files) > 0 THEN 1 ELSE 0,
                                Len(files) > 0 /\ ~upload_ok)
    /\ UNCHANGED <<now, started, notepad>>
    /\ UNCHANGED <<app, cvars, avars, zvars, hvars, taken>>

\* variant: the timer is set by the first response only
RespondToUserBody_TimerSetOnce(files, upload_ok) ==
    /\ asked_followup' = TRUE
    /\ start_time' = IF asked_followup THEN start_time ELSE now
    /\ responds' = Min(responds + 1, MaxResponds)
    /\ respond_at' = now
    /\ last' = [tool |-> "RespondToUser",
                kind |-> IF Len(files) > 0 /\ ~upload_ok THEN Raised ELSE Returned]
    /\ invocation' = Invocation("RespondToUser", IF Len(files) > 0 THEN 1 ELSE 0,
                                Len(files) > 0 /\ ~upload_ok)
    /\ UNCHANGED <<now, started, notepad>>
    /\ UNCHANGED <<app, cvars, avars, zvars, hvars, taken>>

\* variant: a response ends the follow-up phase it was given in
RespondToUserBody_TogglesFollowup(files, upload_ok) ==
    /\ asked_followup' = ~asked_followup
    /\ start_time' = now
    /\ responds' = Min(responds + 1, MaxResponds)
    /\ respond_at' = now
    /\ last' = [tool |-> "RespondToUser",
                kind |-> IF Len(files) > 0 /\ ~upload_ok THEN Raised ELSE Returned]
    /\ invocation' = Invocation("RespondToUser", IF Len(files) > 0 THEN 1 ELSE 0,
                                Len(files) > 0 /\ ~upload_ok)
    /\ UNCHANGED <<now, started, notepad>>
    /\ UNCHANGED <<app, cvars, avars, zvars, hvars, taken>>

RespondToUserBody(files, upload_ok) ==
    /\ asked_followup' = TRUE
    /\ start_time' = now
    /\ responds' = Min(responds + 1, MaxResponds)
    /\ respond_at' = now
    /\ last' = [tool |-> "RespondToUser",
                kind |-> IF Len(files) > 0 /\ ~upload_ok THEN Raised ELSE Returned]
    /\ invocation' = Invocation("RespondToUser", IF Len(files) > 0 THEN 1 ELSE 0,
                                Len(files) > 0 /\ ~upload_ok)
    /\ UNCHANGED <<now, started, notepad>>
    /\ UNCHANGED <<app, cvars, avars, zvars, hvars, taken>>

RespondToUser ==
    /\ started
    /\ RespondToUserPred
    /\ \E files \in FileLists, upload_ok \in BOOLEAN :
          RespondToUserBody(files, upload_ok)
    /\ UNCHANGED pending

\* variant: taking a note restarts the timer
TakeNoteBody_ResetsTimer(note) ==
    /\ taken' = Append(taken, note)
    /\ notepad' = notepad \o note \o <<"\n">>
    /\ start_time' = now
    /\ last' = [tool |-> "TakeNote", kind |-> Returned]
    /\ invocation' = Invocation("TakeNote", 0, FALSE)
    /\ UNCHANGED <<now, started, asked_followup, responds, respond_at>>
    /\ UNCHANGED <<app, cvars, avars, zvars, hvars>>

TakeNoteBody(note) ==
    /\ taken' = Append(taken, note)
    /\ notepad' = notepad \o note \o <<"\n">>
    /\ last' = [tool |-> "TakeNote", kind |-> Returned]
    /\ invocation' = Invocation("TakeNote", 0, FALSE)
    /\ UNCHANGED <<now, started, asked_followup, start_time, responds, respond_at>>
    /\ UNCHANGED <<app, cvars, avars, zvars, hvars>>

TakeNote ==
    /\ started
    /\ TakeNotePred
    /\ \E note \in Notes :
          /\ Len(notepad) + Len(note) + 1 <= MaxNotepadLen
          /\ TakeNoteBody(note)
    /\ UNCHANGED pending

\* variant: the notepad is kept after a clearing read
ReadNotesBody_NoClear(clear_after) ==
    /\ notepad' = notepad
    /\ taken' = IF clear_after = TRUE THEN <<>> ELSE taken
    /\ last' = [tool |-> "ReadNotes", kind |-> Returned, clear_after |-> clear_after,
                out |-> notepad]
    /\ invocation' = Invocation("ReadNotes", 0, FALSE)
    /\ UNCHANGED <<now, started, asked_followup, start_time, responds, respond_at>>
    /\ UNCHANGED <<app, cvars, avars, zvars, hvars>>

ReadNotesBody(clear_after) ==
    /\ notepad' = IF clear_after = TRUE THEN <<>> ELSE notepad
    /\ taken' = IF clear_after = TRUE THEN <<>> ELSE taken
    /\ last' = [tool |-> "ReadNotes", kind |-> Returned, clear_after |-> clear_after,
                out |-> notepad]
    /\ invocation' = Invocation("ReadNotes", 0, FALSE)
    /\ UNCHANGED <<now, started, asked_followup, start_time, responds, respond_at>>
    /\ UNCHANGED <<app, cvars, avars, zvars, hvars>>

ReadNotes ==
    /\ started
    /\ ReadNotesPred
    /\ \E clear_after \in BOOLEAN : ReadNotesBody(clear_after)
    /\ UNCHANGED pending

\* a tool that touches no field of the Research object: n external calls or
\* local I/O whose outcome is one of `kinds`
ExternalTool(tool, kinds, n) ==
    /\ \E k \in kinds :
          /\ last' = [tool |-> tool, kind |-> k]
          /\ invocation' = Invocation(tool, n, k = Raised)
    /\ UNCHANGED pending
    /\ UNCHANGED <<now, started, asked_followup, start_time, notepad, responds, respond_at>>
    /\ UNCHANGED <<app, cvars, avars, zvars, hvars, taken>>

PerplexitySearch ==
    /\ started
    /\ PerplexitySearchPred
    /\ ExternalTool("PerplexitySearch", {Returned, Raised}, 1)

WebSearch ==
    /\ started
    /\ WebSearchPred
    /\ ExternalTool("WebSearch", {Returned, Raised}, 1)

SearchNewsArticles ==
    /\ started
    /\ SearchNewsArticlesPred
    /\ ExternalTool("SearchNewsArticles", {Returned, Raised}, 1)

FindRelatedKeywords ==
    /\ started
    /\ FindRelatedKeywordsPred
    /\ ExternalTool("FindRelatedKeywords", {Returned, Raised}, 1)

\* pytrends.build_payload, then pytrends.interest_over_time: two requests,
\* the second one made only when the first returned
GoogleTrends ==
    /\ started
    /\ GoogleTrendsPred
    /\ \/ ExternalTool("GoogleTrends", {Raised}, 1)
       \/ ExternalTool("GoogleTrends", {Returned, Raised}, 2)

WriteFile ==
    /\ started
    /\ WriteFilePred
    /\ ExternalTool("WriteFile", {Returned, ErrorText, Raised}, 0)

ReadFile ==
    /\ started
    /\ ReadFilePred
    /\ ExternalTool("ReadFile", {Returned, ErrorText}, 0)

\* str.find: the lowest index (from 0) where sub occurs in s, or -1
find(s, sub) ==
    LET hits == { i \in 0..(Len(s) - Len(sub)) : SubSeq(s, i + 1, i + Len(sub)) = sub }
    IN  IF hits = {} THEN -1 ELSE CHOOSE i \in hits : \A j \in hits : i <= j

\* commands and timeouts (seconds) handed to ExecuteCommand
ResearchCommands == { <<"l", "s">>, <<"p", "i", "p">>, <<"x", "a", "p", "k">> }
TimeoutArgs == {10, 300, 600}

install_timeout == 300

\* the timeout handed to subprocess.check_output
applied_timeout(command, timeout) ==
    IF find(command, <<"p", "i", "p">>) >= 0 \/ find(command, <<"a", "p", "k">>) >= 0
    THEN install_timeout
    ELSE timeout

\* one subprocess; every exception becomes an error text
ExecuteCommandBody(command, timeout, k) ==
    /\ last' = [tool |-> "ExecuteCommand", kind |-> k, command |-> command,
                timeout |-> timeout, applied |-> applied_timeout(command, timeout)]
    /\ invocation' = Invocation("ExecuteCommand", 1, FALSE)
    /\ UNCHANGED <<now, started, asked_followup, start_time, notepad, responds, respond_at>>
    /\ UNCHANGED <<app, cvars, avars, zvars, hvars, taken>>

ExecuteCommand ==
    /\ started
    /\ ExecuteCommandPred
    /\ \E command \in ResearchCommands, timeout \in TimeoutArgs, k \in {Returned, ErrorText} :
          ExecuteCommandBody(command, timeout, k)
    /\ UNCHANGED pending

\* RespondToUser within a clock horizon that leaves room for the wait that
\* follows it: the clock of the model stops at MaxTime
RespondToUserLive ==
    /\ \E d \in TickSteps : now + min_duration + d <= MaxTime
    /\ RespondToUser

ResearchTool ==
    \/ PerplexitySearch
    \/ TakeNote
    \/ ReadNotes
    \/ WebSearch
    \/ SearchNewsArticles
    \/ FindRelatedKeywords
    \/ GoogleTrends
    \/ WriteFile
    \/ ReadFile
    \/ ExecuteCommand

----------------------------------------------------------------------------
(* Code: state and predicates.  A str result is a one-element sequence, a   *)
(* list result the sequence of its elements; a text that depends on the     *)
(* environment (command output, a traceback) is written <...>.              *)

\* globals.get(k) is None, or the value stored under k
None == <<>>
Some(v) == <<v>>

\* keys handed to SetOpenAIApiKey
Keys ==
    { <<"s", "k", "-", "a">>, <<"s", "k", "-", "b">>, <<"s", "k", "-">>,
      <<"s", "k">>, <<"p", "k", "-", "a">>, <<"x", "s", "k", "-">>, <<>>,
      <<"s", "k", "-", ".", ".", ".">> }

\* commands handed to ExecuteCommand, paths to ReadFile, texts to the rest
Commands == { <<"l", "s">>, <<"p", "i", "p">> }
Paths == { <<"/", "a">> }
Texts == { <<"h", "i">> }

\* paths and contents handed to WriteFileAndSendToUser; the names a file of
\* the container can have (a swapped content becomes a path)
WPaths == { <<"f">>, <<"d", "/", "f">> }
WContents == { <<"a">>, <<"a", "\n">>, <<"b", "\n", "c">> }
FsNames == WPaths \cup WContents

\* the files the container holds when the app starts: none, or f
InitialFiles ==
    { [p \in FsNames |-> IF p = <<"f">> THEN c ELSE None] :
        c \in {None, Some(<<"a">>), Some(<<"a", "\r", "\n">>)} }

CodeNoCall == [tool |-> "none", arg |-> <<>>, out |-> <<>>]

CodeInit ==
    /\ can_call_external_model = FALSE
    /\ failures = 0
    /\ globals = [k \in {"openai_api_key"} |-> None]
    /\ cret = CodeNoCall
    /\ fs \in InitialFiles

globals_get(k) == globals[k]

\* variant: one failure is enough
AskForPermissionToUseExternalModelPred_OneFailure ==
    can_call_external_model = FALSE /\ failures > 0

AskForPermissionToUseExternalModelPred ==
    can_call_external_model = FALSE /\ failures > 1

AskForHelpPred ==
    can_call_external_model = TRUE /\ globals_get("openai_api_key") # None

\* variant: the absence of the key is not consulted
SetOpenAIApiKeyPred_NoAbsenceCheck == can_call_external_model = TRUE

SetOpenAIApiKeyPred ==
    globals_get("openai_api_key") = None /\ can_call_external_model = TRUE

----------------------------------------------------------------------------
(* Code: tool methods *)

startswith(s, prefix) ==
    Len(s) >= Len(prefix) /\ SubSeq(s, 1, Len(prefix)) = prefix

Code_RespondToUser ==
    /\ \E response \in Texts :
          cret' = [tool |-> "RespondToUser", arg |-> response, out |-> <<response>>]
    /\ invocation' = Invocation("RespondToUser", 0, FALSE)
    /\ UNCHANGED pending
    /\ UNCHANGED <<can_call_external_model, failures, globals, fs>>
    /\ UNCHANGED <<app, rvars, avars, zvars, hvars, taken>>

\* file: "missing" (os.path.exists is false), "ok", "unreadable" (open or
\* readlines raises)
Code_ReadFileBody(path, file) ==
    /\ failures' = IF file = "unreadable" THEN failures + 1 ELSE failures
    /\ invocation' = Invocation("ReadFile", 0, FALSE)
    /\ cret' = [tool |-> "ReadFile", arg |-> path,
                out |-> CASE file = "missing" -> <<"ReadFile Error: <File <path> does not exist.>">>
                          [] file = "unreadable" -> <<"ReadFile Error: path <path>: <e>>\nTraceback: <traceback>">>
                          [] OTHER -> <<"<lines>">>]
    /\ UNCHANGED <<can_call_external_model, globals, fs>>
    /\ UNCHANGED <<app, rvars, avars, zvars, hvars, taken>>

Code_ReadFile ==
    \E path \in Paths, file \in {"missing", "ok", "unreadable"} :
        /\ file = "unreadable" => failures < MaxFailures
        /\ Code_ReadFileBody(path, file)
        /\ UNCHANGED pending

\* variant: a timed-out command is not counted as a failure
Code_ExecuteCommandBody_TimeoutNotCounted(command, run) ==
    /\ failures' = IF run \in {"ok", "timeout"} THEN failures ELSE failures + 1
    /\ invocation' = Invocation("ExecuteCommand", 1, FALSE)
    /\ cret' = [tool |-> "ExecuteCommand", arg |-> command,
                out |-> CASE run = "nonzero" -> <<"Shell Command Error (<returncode>): <output>", command>>
                          [] run = "timeout" -> <<"Shell Command Timeout", command>>
                          [] run = "exception" -> <<"Shell Command Error: <e>\n Traceback:<traceback>", command>>
                          [] OTHER -> <<"<output>", command>>]
    /\ UNCHANGED <<can_call_external_model, globals, fs>>
    /\ UNCHANGED <<app, rvars, avars, zvars, hvars, taken>>

\* run: "ok", "nonzero" (CalledProcessError), "timeout" (TimeoutExpired),
\* "exception" (any other exception)
Code_ExecuteCommandBody(command, run) ==
    /\ failures' = IF run = "ok" THEN failures ELSE failures + 1
    /\ invocation' = Invocation("ExecuteCommand", 1, FALSE)
    /\ cret' = [tool |-> "ExecuteCommand", arg |-> command,
                out |-> CASE run = "nonzero" -> <<"Shell Command Error (<returncode>): <output>", command>>
                          [] run = "timeout" -> <<"Shell Command Timeout", command>>
                          [] run = "exception" -> <<"Shell Command Error: <e>\n Traceback:<traceback>", command>>
                          [] OTHER -> <<"<output>", command>>]
    /\ UNCHANGED <<can_call_external_model, globals, fs>>
    /\ UNCHANGED <<app, rvars, avars, zvars, hvars, taken>>

Code_ExecuteCommand ==
    \E command \in Commands, run \in {"ok", "nonzero", "timeout", "exception"} :
        /\ run # "ok" => failures < MaxFailures
        /\ Code_ExecuteCommandBody(command, run)
        /\ UNCHANGED pending

\* os.path.dirname: the path up to its last "/", without trailing slashes
\* unless it is all slashes
RECURSIVE rstrip_slash(_)
rstrip_slash(s) ==
    IF s # <<>> /\ s[Len(s)] = "/" THEN rstrip_slash(SubSeq(s, 1, Len(s) - 1)) ELSE s

dirname(path) ==
    LET slashes == { i \in 1..Len(path) : path[i] = "/" }
    IN  IF slashes = {} THEN <<>>
        ELSE LET head == SubSeq(path, 1, CHOOSE i \in slashes : \A j \in slashes : j <= i)
             IN  IF rstrip_slash(head) = <<>> THEN head ELSE rstrip_slash(head)

\* Path.read_text: text mode with universal newlines, "\r\n" and "\r" are
\* read as "\n"
RECURSIVE read_text(_)
read_text(raw) ==
    IF raw = <<>> THEN <<>>
    ELSE IF raw[1] = "\r"
         THEN IF Len(raw) >= 2 /\ raw[2] = "\n"
              THEN <<"\n">> \o read_text(SubSeq(raw, 3, Len(raw)))
              ELSE <<"\n">> \o read_text(SubSeq(raw, 2, Len(raw)))
         ELSE <<raw[1]>> \o read_text(SubSeq(raw, 2, Len(raw)))

\* str.splitlines: the lines of s without their terminators "\n", "\r", "\r\n"
RECURSIVE splitlines_from(_, _, _)
splitlines_from(s, i, cur) ==
    IF i > Len(s) THEN (IF cur = <<>> THEN <<>> ELSE <<cur>>)
    ELSE IF s[i] = "\r" /\ i < Len(s) /\ s[i + 1] = "\n"
         THEN <<cur>> \o splitlines_from(s, i + 2, <<>>)
    ELSE IF s[i] \in {"\n", "\r"}
         THEN <<cur>> \o splitlines_from(s, i + 1, <<>>)
    ELSE splitlines_from(s, i + 1, Append(cur, s[i]))

splitlines(s) == splitlines_from(s, 1, <<>>)

\* difflib.unified_diff yields no line exactly when the two line lists are equal
unified_diff_empty(a, b) == a = b

\* the texts WriteFile returns (their backquotes left out)
UnchangedText == "<path> unchanged; no write performed."
DiffEmptyText == "<path> diff empty; no write performed."
PatchText == "patch\n<diff>\n"
WroteText == "Wrote new file <path>.\n<content>"
WriteErrorText == "Error writing file <path>: <e>\nTraceback: <traceback>"

WriteResult(text, files, failed) ==
    [raised |-> FALSE, text |-> text, fs |-> files, failed |-> failed]

\* variant: an existing file with another content is overwritten
Code_WriteFile_Overwrites(path, content, io) ==
    LET p == IF Len(path) > Len(content) THEN content ELSE path
        c == IF Len(path) > Len(content) THEN path ELSE content
    IN  IF dirname(p) # <<>> /\ fs[p] = None /\ io = "mkdir_error"
        THEN [raised |-> TRUE, text |-> "", fs |-> fs, failed |-> FALSE]
        ELSE IF fs[p] # None
        THEN IF io \in {"io_error", "io_error_created"}
             THEN WriteResult(WriteErrorText, fs, TRUE)
             ELSE LET old == read_text(fs[p][1])
                  IN  IF old = c THEN WriteResult(UnchangedText, fs, FALSE)
                      ELSE WriteResult(PatchText, [fs EXCEPT ![p] = Some(c)], FALSE)
        ELSE CASE io = "io_error" -> WriteResult(WriteErrorText, fs, TRUE)
               [] io = "io_error_created" ->
                    WriteResult(WriteErrorText, [fs EXCEPT ![p] = Some(<<>>)], TRUE)
               [] OTHER -> WriteResult(WroteText, [fs EXCEPT ![p] = Some(c)], FALSE)

\* variant: every unequal content is reported as a patch
Code_WriteFile_AlwaysPatch(path, content, io) ==
    LET p == IF Len(path) > Len(content) THEN content ELSE path
        c == IF Len(path) > Len(content) THEN path ELSE content
    IN  IF dirname(p) # <<>> /\ fs[p] = None /\ io = "mkdir_error"
        THEN [raised |-> TRUE, text |-> "", fs |-> fs, failed |-> FALSE]
        ELSE IF fs[p] # None
        THEN IF io \in {"io_error", "io_error_created"}
             THEN WriteResult(WriteErrorText, fs, TRUE)
             ELSE LET old == read_text(fs[p][1])
                  IN  IF old = c THEN WriteResult(UnchangedText, fs, FALSE)
                      ELSE WriteResult(PatchText, fs, FALSE)
        ELSE CASE io = "io_error" -> WriteResult(WriteErrorText, fs, TRUE)
               [] io = "io_error_created" ->
                    WriteResult(WriteErrorText, [fs EXCEPT ![p] = Some(<<>>)], TRUE)
               [] OTHER -> WriteResult(WroteText, [fs EXCEPT ![p] = Some(c)], FALSE)

\* Code.WriteFile, the method behind WriteFileAndSendToUser: what it returns or
\* raises, the files after it, and whether it counted a failure.  io: "ok",
\* "mkdir_error" (os.makedirs raises, outside the try; the directory of an
\* existing file exists, and exist_ok accepts it), "io_error" (exists,
\* read_text or write_text raises), "io_error_created" (write_text raises
\* after open created the file)
Code_WriteFile(path, content, io) ==
    LET p == IF Len(path) > Len(content) THEN content ELSE path
        c == IF Len(path) > Len(content) THEN path ELSE content
    IN  IF dirname(p) # <<>> /\ fs[p] = None /\ io = "mkdir_error"
        THEN [raised |-> TRUE, text |-> "", fs |-> fs, failed |-> FALSE]
        ELSE IF fs[p] # None
        THEN IF io \in {"io_error", "io_error_created"}
             THEN WriteResult(WriteErrorText, fs, TRUE)
             ELSE LET old == read_text(fs[p][1])
                  IN  IF old = c THEN WriteResult(UnchangedText, fs, FALSE)
                      ELSE IF unified_diff_empty(splitlines(old), splitlines(c))
                      THEN WriteResult(DiffEmptyText, fs, FALSE)
                      ELSE WriteResult(PatchText, fs, FALSE)
        ELSE CASE io = "io_error" -> WriteResult(WriteErrorText, fs, TRUE)
               [] io = "io_error_created" ->
                    WriteResult(WriteErrorText, [fs EXCEPT ![p] = Some(<<>>)], TRUE)
               [] OTHER -> WriteResult(WroteText, [fs EXCEPT ![p] = Some(c)], FALSE)

WriteIO == {"ok", "mkdir_error", "io_error", "io_error_created"}

\* the response is Path(path).name + "\n" + the text of WriteFile; no name of
\* WPaths starts with "Error writing file", so the startswith test is false and
\* the upload is always attempted
Code_WriteFileAndSendToUserBody(path, content, io, upload_ok) ==
    LET w == Code_WriteFile(path, content, io)
    IN  /\ fs' = w.fs
        /\ failures' = IF w.failed THEN failures + 1 ELSE failures
        /\ IF w.raised
           THEN /\ cret' = [tool |-> "WriteFileAndSendToUser", arg |-> <<path, content>>,
                            out |-> <<>>]
                /\ invocation' = Invocation("WriteFileAndSendToUser", 0, TRUE)
           ELSE /\ cret' = [tool |-> "WriteFileAndSendToUser", arg |-> <<path, content>>,
                            out |-> <<w.text>>]
                /\ invocation' = Invocation("WriteFileAndSendToUser", 1, ~upload_ok)
        /\ UNCHANGED <<can_call_external_model, globals>>
        /\ UNCHANGED <<app, rvars, avars, zvars, hvars, taken>>

Code_WriteFileAndSendToUser ==
    \E path \in WPaths, content \in WContents, io \in WriteIO, upload_ok \in BOOLEAN :
        /\ Code_WriteFile(path, content, io).failed => failures < MaxFailures
        /\ Code_WriteFileAndSendToUserBody(path, content, io, upload_ok)
        /\ UNCHANGED pending

\* variant: the request alone grants nothing
AskForPermissionToUseExternalModelBody_NoGrant(reason) ==
    /\ invocation' = Invocation("AskForPermissionToUseExternalModel", 0, FALSE)
    /\ cret' = [tool |-> "AskForPermissionToUseExternalModel", arg |-> reason,
                out |-> <<"I need to call a more powerful external model to help me with this task. <reason>">>]
    /\ UNCHANGED <<can_call_external_model, failures, globals, fs>>
    /\ UNCHANGED <<app, rvars, avars, zvars, hvars, taken>>

AskForPermissionToUseExternalModelBody(reason) ==
    /\ can_call_external_model' = TRUE
    /\ invocation' = Invocation("AskForPermissionToUseExternalModel", 0, FALSE)
    /\ cret' = [tool |-> "AskForPermissionToUseExternalModel", arg |-> reason,
                out |-> <<"I need to call a more powerful external model to help me with this task. <reason>">>]
    /\ UNCHANGED <<failures, globals, fs>>
    /\ UNCHANGED <<app, rvars, avars, zvars, hvars, taken>>

AskForPermissionToUseExternalModel ==
    /\ AskForPermissionToUseExternalModelPred
    /\ \E reason \in Texts : AskForPermissionToUseExternalModelBody(reason)
    /\ UNCHANGED pending

AskForHelpBody(prompt, call_ok) ==
    /\ invocation' = Invocation("AskForHelp", 1, FALSE)
    /\ cret' = [tool |-> "AskForHelp", arg |-> prompt,
                out |-> IF call_ok THEN <<"<content>">>
                        ELSE <<"OpenAI Error: <e>\nTraceback: <traceback>">>]
    /\ UNCHANGED <<can_call_external_model, failures, globals, fs>>
    /\ UNCHANGED <<app, rvars, avars, zvars, hvars, taken>>

AskForHelp ==
    /\ AskForHelpPred
    /\ \E prompt \in Texts, call_ok \in BOOLEAN : AskForHelpBody(prompt, call_ok)
    /\ UNCHANGED pending

\* the two strings SetOpenAIApiKey returns, character by character:
\* "Error: Invalid OpenAI API key format." and "set openai_api_key sk-..."
InvalidKeyText ==
    <<"E", "r", "r", "o", "r", ":", " ", "I", "n", "v", "a", "l", "i", "d", " ",
       "O", "p", "e", "n", "A", "I", " ", "A", "P", "I", " ", "k", "e", "y", " ", "f", "o", "r", "m", "a", "t", ".">>

KeyConfirmation ==
    <<"s", "e", "t", " ", "o", "p", "e", "n", "a", "i", "_", "a", "p", "i", "_",
       "k", "e", "y", " ", "s", "k", "-", ".", ".", ".">>

\* variant: the confirmation echoes the key
SetOpenAIApiKeyBody_EchoesKey(key) ==
    /\ invocation' = Invocation("SetOpenAIApiKey", 0, FALSE)
    /\ IF ~startswith(key, <<"s", "k", "-">>)
       THEN /\ cret' = [tool |-> "SetOpenAIApiKey", arg |-> key, out |-> <<InvalidKeyText>>]
            /\ UNCHANGED globals
       ELSE /\ globals' = [globals EXCEPT !["openai_api_key"] = Some(key)]
            /\ cret' = [tool |-> "SetOpenAIApiKey", arg |-> key,
                        out |-> <<SubSeq(KeyConfirmation, 1, 19) \o key>>]
    /\ UNCHANGED <<can_call_external_model, failures, fs>>
    /\ UNCHANGED <<app, rvars, avars, zvars, hvars, taken>>

\* variant: the key is stored before its format is validated
SetOpenAIApiKeyBody_StoreFirst(key) ==
    /\ invocation' = Invocation("SetOpenAIApiKey", 0, FALSE)
    /\ globals' = [globals EXCEPT !["openai_api_key"] = Some(key)]
    /\ cret' = [tool |-> "SetOpenAIApiKey", arg |-> key,
                out |-> IF ~startswith(key, <<"s", "k", "-">>)
                        THEN <<InvalidKeyText>>
                        ELSE <<KeyConfirmation>>]
    /\ UNCHANGED <<can_call_external_model, failures, fs>>
    /\ UNCHANGED <<app, rvars, avars, zvars, hvars, taken>>

SetOpenAIApiKeyBody(key) ==
    /\ invocation' = Invocation("SetOpenAIApiKey", 0, FALSE)
    /\ IF ~startswith(key, <<"s", "k", "-">>)
       THEN /\ cret' = [tool |-> "SetOpenAIApiKey", arg |-> key,
                        out |-> <<InvalidKeyText>>]
            /\ UNCHANGED globals
       ELSE /\ globals' = [globals EXCEPT !["openai_api_key"] = Some(key)]
            /\ cret' = [tool |-> "SetOpenAIApiKey", arg |-> key,
                        out |-> <<KeyConfirmation>>]
    /\ UNCHANGED <<can_call_external_model, failures, fs>>
    /\ UNCHANGED <<app, rvars, avars, zvars, hvars, taken>>

SetOpenAIApiKey ==
    /\ SetOpenAIApiKeyPred
    /\ \E key \in Keys : SetOpenAIApiKeyBody(key)
    /\ UNCHANGED pending

----------------------------------------------------------------------------
(* The context-compression hook of the two Research copies.  A context is   *)
(* the sequence of its blocks, a block its role and the texts of its        *)
(* entries.                                                                  *)

ResearchCopies == {"Research", "GettingStarted.Research"}

SystemBlock == [role |-> "system", entries |-> <<"<system prompt>">>]
UserBlock == [role |-> "user", entries |-> <<"<task>">>]
SummaryBlock == [role |-> "user", entries |-> <<"<response.content>">>]

\* contexts handed to the hook: the system block and the blocks after it
Contexts == { <<SystemBlock>>, <<SystemBlock, UserBlock>>, <<SystemBlock, UserBlock, UserBlock>> }

FailureNote == "\n\n[Context compression failed, using uncompressed context. Error: <e>]"

\* in_ctx.blocks[-1].entries.add(text = FailureNote)
with_failure_note(in_ctx) ==
    [in_ctx EXCEPT ![Len(in_ctx)].entries = Append(@, FailureNote)]

\* new_ctx: in_ctx.blocks[0] and one user block holding response.content
compressed(in_ctx) == <<in_ctx[1], SummaryBlock>>

\* the hook: what it returns is Some(context), or None where the function
\* ends without a return statement (the success path of the GettingStarted
\* copy)
build_context_override(in_ctx, call_ok) ==
    /\ IF ~compress_next_context
       THEN /\ hook' = [in_ctx |-> in_ctx, out |-> Some(in_ctx), calls |-> 0, raised |-> FALSE]
            /\ UNCHANGED compress_next_context
       ELSE /\ compress_next_context' = FALSE
            /\ hook' = [in_ctx |-> in_ctx,
                        out |-> IF call_ok
                                THEN (IF app = "Research" THEN Some(compressed(in_ctx)) ELSE None)
                                ELSE Some(with_failure_note(in_ctx)),
                        calls |-> 1, raised |-> FALSE]
    /\ UNCHANGED <<app, rvars, cvars, avars, zvars, taken, invocation, pending>>

build_context ==
    \E in_ctx \in Contexts, call_ok \in BOOLEAN : build_context_override(in_ctx, call_ok)

----------------------------------------------------------------------------
(* Arxiv: state, predicates and tools.  selected_paper is None or the stored *)
(* dict, of which the id is kept; paper_content is None or the stored text.  *)

\* ids handed to SelectPaper: "1", " 1", "http/2.pdf"
ArxivIds ==
    { <<"1">>, <<" ", "1">>, <<"h", "t", "t", "p", "/", "2", ".", "p", "d", "f">> }

\* str.strip for blanks
RECURSIVE strip(_)
strip(s) ==
    IF s # <<>> /\ s[1] = " " THEN strip(SubSeq(s, 2, Len(s)))
    ELSE IF s # <<>> /\ s[Len(s)] = " " THEN strip(SubSeq(s, 1, Len(s) - 1))
    ELSE s

\* s.split('/')[-1]: what follows the last "/"
after_last_slash(s) ==
    LET slashes == { i \in 1..Len(s) : s[i] = "/" }
    IN  IF slashes = {} THEN s
        ELSE SubSeq(s, (CHOOSE i \in slashes : \A j \in slashes : j <= i) + 1, Len(s))

\* s.replace('.pdf', '')
RECURSIVE remove_pdf(_)
remove_pdf(s) ==
    IF s = <<>> THEN <<>>
    ELSE IF Len(s) >= 4 /\ SubSeq(s, 1, 4) = <<".", "p", "d", "f">>
         THEN remove_pdf(SubSeq(s, 5, Len(s)))
         ELSE <<s[1]>> \o remove_pdf(SubSeq(s, 2, Len(s)))

normalize_id(arxiv_id) ==
    LET t == strip(arxiv_id)
    IN  IF startswith(t, <<"h", "t", "t", "p">>) THEN remove_pdf(after_last_slash(t)) ELSE t

has_paper_selected == selected_paper # None
ResearcherPred == has_paper_selected
GetCurrentPaperPred == has_paper_selected

\* the texts _extract_paper_text returns, by the outcome of its request
extract_paper_text(page) ==
    CASE page = "200" -> "Paper abstract page loaded. <...>"
      [] page = "other" -> "Could not access paper content"
      [] OTHER -> "Error extracting paper text: <e>\nTraceback: <traceback>"

Lookups == {"http_error", "no_entries", "malformed_entry", "entry", "entry_bad_terms"}
Pages == {"200", "other", "error"}

\* variant: a lookup without entries clears the selection
SelectPaperBody_ClearsOnMiss(arxiv_id, load_full_text, lookup, page) ==
    /\ selected_paper' = IF lookup \in {"entry", "entry_bad_terms"}
                         THEN Some([id |-> normalize_id(arxiv_id)])
                         ELSE IF lookup = "no_entries" THEN None ELSE selected_paper
    /\ ever_selected' = (ever_selected \/ lookup \in {"entry", "entry_bad_terms"})
    /\ paper_content' = IF lookup \in {"entry", "entry_bad_terms"} /\ load_full_text
                        THEN Some(extract_paper_text(page)) ELSE paper_content
    /\ content_loaded_for' = IF lookup \in {"entry", "entry_bad_terms"} /\ load_full_text
                             THEN Some(normalize_id(arxiv_id)) ELSE content_loaded_for
    /\ aret' = [tool |-> "SelectPaper", lookup |-> lookup,
                out |-> CASE lookup = "no_entries" -> "Paper with ID '<arxiv_id>' not found."
                          [] lookup = "entry" -> "**Paper Selected Successfully!** <...>"
                          [] OTHER -> "Error selecting paper: <e>\nTraceback: <traceback>"]
    /\ invocation' = Invocation("SelectPaper",
                         IF lookup \in {"entry", "entry_bad_terms"} /\ load_full_text
                         THEN 2 ELSE 1, FALSE)
    /\ UNCHANGED <<app, rvars, cvars, zvars, hvars, taken>>

\* lookup: the request raised or answered with an error status ("http_error"),
\* the feed has no entry, its first entry lacks title or summary, it has a
\* well-formed entry, or an entry whose terms make the result formatting raise
\* after the selection was stored
SelectPaperBody(arxiv_id, load_full_text, lookup, page) ==
    /\ selected_paper' = IF lookup \in {"entry", "entry_bad_terms"}
                         THEN Some([id |-> normalize_id(arxiv_id)])
                         ELSE selected_paper
    /\ ever_selected' = (ever_selected \/ lookup \in {"entry", "entry_bad_terms"})
    /\ paper_content' = IF lookup \in {"entry", "entry_bad_terms"} /\ load_full_text
                        THEN Some(extract_paper_text(page)) ELSE paper_content
    /\ content_loaded_for' = IF lookup \in {"entry", "entry_bad_terms"} /\ load_full_text
                             THEN Some(normalize_id(arxiv_id)) ELSE content_loaded_for
    /\ aret' = [tool |-> "SelectPaper", lookup |-> lookup,
                out |-> CASE lookup = "no_entries" -> "Paper with ID '<arxiv_id>' not found."
                          [] lookup = "entry" -> "**Paper Selected Successfully!** <...>"
                          [] OTHER -> "Error selecting paper: <e>\nTraceback: <traceback>"]
    /\ invocation' = Invocation("SelectPaper",
                         IF lookup \in {"entry", "entry_bad_terms"} /\ load_full_text
                         THEN 2 ELSE 1, FALSE)
    /\ UNCHANGED <<app, rvars, cvars, zvars, hvars, taken>>

SelectPaper ==
    /\ \E arxiv_id \in ArxivIds, load_full_text \in BOOLEAN, lookup \in Lookups, page \in Pages :
          SelectPaperBody(arxiv_id, load_full_text, lookup, page)
    /\ UNCHANGED pending

NoPaperText == "No paper selected! Please use the SelectPaper tool first to choose a paper to discuss."
NoCurrentPaperText == "No paper is currently selected. Use SearchPapers to find papers, then SelectPaper to choose one."

\* variant: Researcher without the re-check of selected_paper
ResearcherBody_NoRecheck(question, call_ok) ==
    /\ aret' = [tool |-> "Researcher",
                out |-> IF call_ok THEN "**Researcher's Response:** <...>"
                        ELSE "Error getting researcher response: <e>\nTraceback: <traceback>"]
    /\ invocation' = Invocation("Researcher", 1, FALSE)
    /\ UNCHANGED <<selected_paper, paper_content, ever_selected, content_loaded_for>>
    /\ UNCHANGED <<app, rvars, cvars, zvars, hvars, taken>>

\* one PerplexitySearcher().run call inside try, after the re-check
ResearcherBody(question, call_ok) ==
    /\ IF selected_paper = None
       THEN /\ aret' = [tool |-> "Researcher", out |-> NoPaperText]
            /\ invocation' = Invocation("Researcher", 0, FALSE)
       ELSE /\ aret' = [tool |-> "Researcher",
                        out |-> IF call_ok THEN "**Researcher's Response:** <...>"
                                ELSE "Error getting researcher response: <e>\nTraceback: <traceback>"]
            /\ invocation' = Invocation("Researcher", 1, FALSE)
    /\ UNCHANGED <<selected_paper, paper_content, ever_selected, content_loaded_for>>
    /\ UNCHANGED <<app, rvars, cvars, zvars, hvars, taken>>

Researcher ==
    /\ ResearcherPred
    /\ \E question \in Texts, call_ok \in BOOLEAN : ResearcherBody(question, call_ok)
    /\ UNCHANGED pending

GetCurrentPaperBody ==
    /\ aret' = [tool |-> "GetCurrentPaper",
                out |-> IF selected_paper = None THEN NoCurrentPaperText
                        ELSE "**Currently Selected Paper:** <...>"]
    /\ invocation' = Invocation("GetCurrentPaper", 0, FALSE)
    /\ UNCHANGED <<selected_paper, paper_content, ever_selected, content_loaded_for>>
    /\ UNCHANGED <<app, rvars, cvars, zvars, hvars, taken>>

GetCurrentPaper ==
    /\ GetCurrentPaperPred
    /\ GetCurrentPaperBody
    /\ UNCHANGED pending

\* a search tool of the Arxiv app: one request whose outcome is one of `kinds`
ArxivSearch(tool, kinds) ==
    /\ \E k \in kinds :
          /\ aret' = [tool |-> tool, out |-> k]
          /\ invocation' = Invocation(tool, 1, k = Raised)
    /\ UNCHANGED <<selected_paper, paper_content, ever_selected, content_loaded_for, pending>>
    /\ UNCHANGED <<app, rvars, cvars, zvars, hvars, taken>>

\* requests.get inside try/except
SearchPapers == ArxivSearch("SearchPapers", {Returned, ErrorText})

\* PerplexitySearcher().run without try/except
SearchWebPapers == ArxivSearch("SearchWebPapers", {Returned, Raised})

\* requests.get inside try/except
SearchExternalPapers == ArxivSearch("SearchExternalPapers", {Returned, ErrorText})

ArxivNext ==
    \/ SearchPapers
    \/ SearchWebPapers
    \/ SearchExternalPapers
    \/ SelectPaper
    \/ Researcher
    \/ GetCurrentPaper

----------------------------------------------------------------------------
(* Realtor: state and tools.  search_results holds the properties of the    *)
(* last successful Scout, written here as the pages they came from.         *)

\* the most pages one Scout fetches
PageCap == 5

Locations == {"", "Austin, TX"}
TotalPagesArgs == {1, 3, 5, 7}

\* variant: the loop is bounded by the announced pages alone
RECURSIVE scout_pages_Uncapped(_, _, _, _, _)
scout_pages_Uncapped(current_page, total_pages, good, props, calls) ==
    IF current_page < total_pages
    THEN IF good > 0
         THEN scout_pages_Uncapped(current_page + 1, total_pages, good - 1,
                                   Append(props, current_page + 1), calls + 1)
         ELSE [props |-> props, calls |-> calls + 1]
    ELSE [props |-> props, calls |-> calls]

\* the paging loop: from current_page, with total_pages announced and `good`
\* further pages that answer 200 with properties; the page after them ends
\* the loop (another status, no properties, or an exception)
RECURSIVE scout_pages(_, _, _, _, _)
scout_pages(current_page, total_pages, good, props, calls) ==
    IF current_page < Min(total_pages, PageCap) /\ current_page < PageCap
    THEN IF good > 0
         THEN scout_pages(current_page + 1, total_pages, good - 1,
                          Append(props, current_page + 1), calls + 1)
         ELSE [props |-> props, calls |-> calls + 1]
    ELSE [props |-> props, calls |-> calls]

\* first: the outcome of the first request: "exception", a status other than
\* 200 ("429", "403", "500"), "200_empty" (no properties), "200_props"
Firsts == {"exception", "429", "403", "500", "200_empty", "200_props"}

ScoutBody(location, first, total_pages, good) ==
    LET r == scout_pages(1, total_pages, good, <<1>>, 1)
    IN  /\ search_results' = IF location # "" /\ first = "200_props"
                             THEN r.props ELSE search_results
        /\ zret' = [tool |-> "Scout",
                    out |-> CASE location = "" -> "**Error:** Location is required. <...>"
                              [] first = "exception" -> "Network error when accessing Zillow API: <e>"
                              [] first = "429" -> "**API Rate Limit Reached** <...>"
                              [] first = "403" -> "**API Access Required** <...>"
                              [] first = "500" -> "Error accessing Zillow API: HTTP <status>. <...>"
                              [] first = "200_empty" -> "No properties found for <location> <...>"
                              [] OTHER -> "**Zillow Scout Results for <location>** <...>"]
        /\ invocation' = Invocation("Scout",
                             CASE location = "" -> 0
                               [] first = "200_props" -> r.calls
                               [] OTHER -> 1, FALSE)
        /\ UNCHANGED <<app, rvars, cvars, avars, hvars, taken>>

Scout ==
    /\ \E location \in Locations, first \in Firsts, total_pages \in TotalPagesArgs,
          good \in 0..(PageCap - 1) :
          ScoutBody(location, first, total_pages, good)
    /\ UNCHANGED pending

Realtor_RespondToUser ==
    /\ \E response \in Texts : zret' = [tool |-> "RespondToUser", out |-> response]
    /\ invocation' = Invocation("RespondToUser", 0, FALSE)
    /\ UNCHANGED <<search_results, pending>>
    /\ UNCHANGED <<app, rvars, cvars, avars, hvars, taken>>

\* _run_cmd: one subprocess, every exception becomes a text
Realtor_ExecuteCommand ==
    /\ \E k \in {Returned, ErrorText} : zret' = [tool |-> "ExecuteCommand", out |-> k]
    /\ invocation' = Invocation("ExecuteCommand", 1, FALSE)
    /\ UNCHANGED <<search_results, pending>>
    /\ UNCHANGED <<app, rvars, cvars, avars, hvars, taken>>

RealtorNext ==
    \/ Realtor_RespondToUser
    \/ Realtor_ExecuteCommand
    \/ Scout

----------------------------------------------------------------------------
(* Specifications *)

ArxivInit ==
    /\ selected_paper = None
    /\ paper_content = None
    /\ ever_selected = FALSE
    /\ content_loaded_for = None
    /\ aret = [tool |-> "none", out |-> <<>>]

RealtorInit ==
    /\ search_results = <<>>
    /\ zret = [tool |-> "none", out |-> <<>>]

\* no build_context_override call yet
NoHook == [in_ctx |-> <<>>, out |-> <<>>, calls |-> 0, raised |-> FALSE]

StateInit ==
    ResearchInit /\ CodeInit /\ ArxivInit /\ RealtorInit /\ HostInit /\ hook = NoHook

AllInit == StateInit /\ compress_next_context = FALSE

Init == app = "Research" /\ AllInit

InitCode == app = "Code" /\ AllInit

InitArxiv == app = "Arxiv" /\ AllInit

Next ==
    \/ Tick
    \/ on_app_start
    \/ RespondToUser
    \/ ResearchTool

NextLive ==
    \/ Tick
    \/ on_app_start
    \/ RespondToUserLive
    \/ ResearchTool

Spec == Init /\ [][Next]_vars

CodeNext ==
    \/ Code_RespondToUser
    \/ Code_ReadFile
    \/ Code_ExecuteCommand
    \/ AskForPermissionToUseExternalModel
    \/ AskForHelp
    \/ SetOpenAIApiKey

CodeSpec == InitCode /\ [][CodeNext]_vars

\* the Code tools that work on the files of the container
FileNext ==
    \/ Code_WriteFileAndSendToUser
    \/ Code_ReadFile

FileSpec == InitCode /\ [][FileNext]_vars

ArxivSpec == InitArxiv /\ [][ArxivNext]_vars

\* the Arxiv methods called without regard to their predicates
DirectNext ==
    \/ SelectPaper
    \/ (\E question \in Texts, call_ok \in BOOLEAN : ResearcherBody(question, call_ok))
          /\ UNCHANGED pending
    \/ GetCurrentPaperBody /\ UNCHANGED pending

DirectSpec == InitArxiv /\ [][DirectNext]_vars

\* the four apps: the application handed to hyphae.run, and its tools
Apps == {"Research", "Code", "Arxiv", "Realtor"}

InitAny == app \in Apps /\ AllInit

NextAny ==
    \/ app = "Research" /\ Next
    \/ app = "Code" /\ (CodeNext \/ Code_WriteFileAndSendToUser)
    \/ app = "Arxiv" /\ ArxivNext
    \/ app = "Realtor" /\ RealtorNext

AnySpec == InitAny /\ [][NextAny]_vars

\* Dispatches that are not atomic: the host evaluates the predicate of a gated
\* tool (Check) and runs the method body later (RunPending), other checks and
\* bodies in between.
RacingTools ==
    [Research |-> {"RespondToUser", "TakeNote"},
     Code |-> {"AskForPermissionToUseExternalModel", "AskForHelp", "SetOpenAIApiKey"}]

PredOf(tool) ==
    CASE tool = "RespondToUser" -> RespondToUserPred
      [] tool = "TakeNote" -> TakeNotePred
      [] tool = "AskForPermissionToUseExternalModel" -> AskForPermissionToUseExternalModelPred
      [] tool = "AskForHelp" -> AskForHelpPred
      [] OTHER -> SetOpenAIApiKeyPred

Check ==
    /\ app = "Research" => started
    /\ Len(pending) < MaxPending
    /\ \E tool \in RacingTools[app] :
          /\ PredOf(tool)
          /\ pending' = Append(pending, tool)
    /\ UNCHANGED <<app, rvars, cvars, avars, zvars, hvars, taken, invocation>>

RunPending ==
    /\ pending # <<>>
    /\ pending' = Tail(pending)
    /\ \/ /\ Head(pending) = "RespondToUser"
          /\ \E files \in FileLists, upload_ok \in BOOLEAN : RespondToUserBody(files, upload_ok)
       \/ /\ Head(pending) = "TakeNote"
          /\ \E note \in Notes :
                /\ Len(notepad) + Len(note) + 1 <= MaxNotepadLen
                /\ TakeNoteBody(note)
       \/ /\ Head(pending) = "AskForPermissionToUseExternalModel"
          /\ \E reason \in Texts : AskForPermissionToUseExternalModelBody(reason)
       \/ /\ Head(pending) = "AskForHelp"
          /\ \E prompt \in Texts, call_ok \in BOOLEAN : AskForHelpBody(prompt, call_ok)
       \/ /\ Head(pending) = "SetOpenAIApiKey"
          /\ \E key \in Keys : SetOpenAIApiKeyBody(key)

InitRace == app \in {"Research", "Code"} /\ AllInit

RaceNext ==
    \/ app = "Research" /\ (Tick \/ on_app_start)
    \/ app = "Code" /\ Code_ExecuteCommand
    \/ Check
    \/ RunPending

RaceSpec == InitRace /\ [][RaceNext]_vars

\* the notepad tools and the context hook of either Research copy; the flag
\* is as the caller of the hook left it
InitHook == app \in ResearchCopies /\ StateInit /\ compress_next_context \in BOOLEAN

HookNext ==
    \/ on_app_start
    \/ RespondToUser
    \/ TakeNote
    \/ ReadNotes
    \/ build_context

HookSpec == InitHook /\ [][HookNext]_vars

\* the clock keeps advancing
LiveSpec == Init /\ [][NextLive]_vars /\ WF_vars(Tick)

----------------------------------------------------------------------------
(* Research: properties *)

FullAccessPreds ==
    { PerplexitySearchPred, TakeNotePred, ReadNotesPred, WebSearchPred,
      SearchNewsArticlesPred, FindRelatedKeywordsPred, GoogleTrendsPred,
      WriteFilePred, ReadFilePred, ExecuteCommandPred }

elapsed == now - start_time

\* C1: while asked_followup is false, RespondToUser is available and every
\* tool gated by has_full_tool_access is unavailable, whatever the elapsed time.
C1_RestrictedPhase ==
    (asked_followup = FALSE) => (RespondToUserPred /\ FullAccessPreds = {FALSE})

C1_Witness == asked_followup = FALSE /\ started /\ elapsed > min_duration

\* C2: while asked_followup is true and less than min_duration has elapsed
\* since start_time, can_respond_to_user and the RespondToUser predicate are
\* false and every tool gated by has_full_tool_access is available.
C2_WaitingPhase ==
    (asked_followup = TRUE /\ elapsed < min_duration)
        => (~can_respond_to_user /\ ~RespondToUserPred /\ FullAccessPreds = {TRUE})

C2_Witness == asked_followup = TRUE /\ 0 < elapsed /\ elapsed < min_duration

\* C3 as stated: with asked_followup true, RespondToUser is available exactly
\* when now - start_time >= min_duration, the instant of equality included.
C3_InclusiveThreshold ==
    (asked_followup = TRUE) => (RespondToUserPred <=> elapsed >= min_duration)

\* C3 amended: with asked_followup true, RespondToUser is available exactly
\* when now - start_time > min_duration; at the instant the elapsed time
\* equals min_duration it is still unavailable.
C3_StrictThreshold ==
    (asked_followup = TRUE) =>
        /\ RespondToUserPred <=> elapsed > min_duration
        /\ elapsed = min_duration => ~RespondToUserPred

C3_Witness == asked_followup = TRUE /\ elapsed = min_duration

\* C4: every RespondToUser invocation at time t, whether it returns or raises
\* on a failed upload, leaves asked_followup = true and start_time = t; a
\* repeated invocation keeps asked_followup true and changes, of the agent's
\* fields, only start_time.
C4_RespondResets ==
    [][RespondToUser =>
          /\ asked_followup' = TRUE
          /\ start_time' = now
          /\ now' = now
          /\ notepad' = notepad
          /\ (asked_followup = TRUE => asked_followup' = asked_followup)]_vars

C4_Witness ==
    /\ responds >= 2
    /\ last = [tool |-> "RespondToUser", kind |-> Raised]
    /\ asked_followup = TRUE
    /\ start_time = now
    /\ now > 0

\* C5 as stated: after the first RespondToUser at time T, a full-access tool
\* (TakeNote) is unavailable at every time before T + min_duration.
C5_FullAccessWaits ==
    (responds = 1 /\ now < respond_at + min_duration) => ~TakeNotePred

\* C5 amended: after the first RespondToUser at time T (asked_followup = true,
\* start_time = T) it is RespondToUser whose predicate is false at every time
\* up to and including T + min_duration, so that the host does not dispatch
\* it, and true once more than min_duration has elapsed; the full-access
\* tools are available from T on.
C5_ResponseWaits ==
    (responds = 1) =>
        /\ asked_followup = TRUE /\ start_time = respond_at
        /\ TakeNotePred
        /\ now <= respond_at + min_duration
              => (~RespondToUserPred /\ ~ENABLED RespondToUser)
        /\ now > respond_at + min_duration => RespondToUserPred

C5_Witness ==
    /\ responds = 1
    /\ now < respond_at + min_duration
    /\ last = [tool |-> "TakeNote", kind |-> Returned]

\* C6: after a RespondToUser invocation at time t, RespondToUser is unavailable
\* throughout the min_duration interval that follows, and any two consecutive
\* RespondToUser invocations are at least min_duration apart.
C6_SelfThrottling ==
    /\ []((respond_at >= 0 /\ now - respond_at <= min_duration) => ~RespondToUserPred)
    /\ [][RespondToUser => ~RespondToUserPred']_vars
    /\ [][(RespondToUser /\ respond_at >= 0) => now - respond_at >= min_duration]_vars

C6_Witness == responds >= 2 /\ respond_at >= 2 * min_duration

\* C7: once asked_followup is true and the clock keeps advancing, RespondToUser
\* becomes available again; no tool other than RespondToUser changes
\* start_time.
C7_EventuallyRespond ==
    /\ (asked_followup = TRUE) ~> (can_respond_to_user /\ RespondToUserPred)
    /\ [][ResearchTool => start_time' = start_time]_vars

C7_Witness ==
    /\ responds >= 1
    /\ can_respond_to_user
    /\ last = [tool |-> "TakeNote", kind |-> Returned]

----------------------------------------------------------------------------
(* Code: properties *)

StoredKey == globals["openai_api_key"]

\* C8: AskForPermissionToUseExternalModel is available exactly when
\* can_call_external_model is false and at least two failures are recorded;
\* with fewer than two failures it is unavailable and is not dispatched.
C8_EscalationGate ==
    /\ AskForPermissionToUseExternalModelPred
          <=> (can_call_external_model = FALSE /\ failures >= 2)
    /\ failures < 2 =>
          /\ ~AskForPermissionToUseExternalModelPred
          /\ ~ENABLED AskForPermissionToUseExternalModel

C8_Witness ==
    /\ failures = 2
    /\ can_call_external_model = FALSE
    /\ AskForPermissionToUseExternalModelPred

\* C9: AskForHelp is available exactly when permission is granted and the
\* store holds openai_api_key, SetOpenAIApiKey exactly when permission is
\* granted and the key is absent; they are never both available, and with
\* permission granted exactly one of them is.
C9_PermissionThenSecret ==
    /\ AskForHelpPred <=> (can_call_external_model = TRUE /\ StoredKey # None)
    /\ SetOpenAIApiKeyPred <=> (can_call_external_model = TRUE /\ StoredKey = None)
    /\ ~(AskForHelpPred /\ SetOpenAIApiKeyPred)
    /\ can_call_external_model = TRUE => (AskForHelpPred # SetOpenAIApiKeyPred)

C9_Witness ==
    /\ can_call_external_model = TRUE
    /\ StoredKey # None
    /\ AskForHelpPred
    /\ ~SetOpenAIApiKeyPred

HasSkPrefix(key) ==
    Len(key) >= 3 /\ key[1] = "s" /\ key[2] = "k" /\ key[3] = "-"

\* C10: a SetOpenAIApiKey call whose key does not start with "sk-" returns the
\* error string and leaves the store as it was, the key still unset; a call
\* whose key starts with "sk-" stores the key verbatim.
C10_KeyValidation ==
    [][SetOpenAIApiKey =>
          LET key == cret'.arg IN
          /\ cret'.tool = "SetOpenAIApiKey"
          /\ IF HasSkPrefix(key)
             THEN StoredKey' = Some(key)
             ELSE /\ cret'.out = <<InvalidKeyText>>
                  /\ globals' = globals
                  /\ StoredKey' = None]_vars

C10_Witness ==
    /\ cret.tool = "SetOpenAIApiKey"
    /\ cret.arg = <<"x", "s", "k", "-">>
    /\ cret.out = <<InvalidKeyText>>
    /\ StoredKey = None

\* s contains sub as a substring
Contains(s, sub) ==
    \E i \in 0..(Len(s) - Len(sub)) : SubSeq(s, i + 1, i + Len(sub)) = sub

\* C11 as stated: for every accepted key the returned confirmation never
\* contains the whole key as a substring, and is the same for all accepted keys.
C11_NeverContainsKey ==
    (cret.tool = "SetOpenAIApiKey" /\ HasSkPrefix(cret.arg)) =>
        /\ cret.out = <<KeyConfirmation>>
        /\ ~Contains(cret.out[1], cret.arg)

\* the accepted keys that are a prefix of the mask "sk-..."
MaskPrefixes == { SubSeq(KeyConfirmation, 20, n) : n \in 22..25 }

\* C11 (amended): for every accepted key other than "sk-", "sk-.", "sk-.." and
\* "sk-..." the returned confirmation never contains the whole key as a
\* substring, and the confirmation is the same for any two accepted keys.
C11_ConfirmationHidesKey ==
    (cret.tool = "SetOpenAIApiKey" /\ HasSkPrefix(cret.arg)) =>
        /\ cret.out = <<KeyConfirmation>>
        /\ cret.arg \notin MaskPrefixes => ~Contains(cret.out[1], cret.arg)

C11_Witness ==
    /\ cret.tool = "SetOpenAIApiKey"
    /\ cret.arg = <<"s", "k", "-", "a">>
    /\ cret.out = <<KeyConfirmation>>
    /\ StoredKey = Some(cret.arg)

\* C12: a Code ExecuteCommand call whose command failed (non-zero exit,
\* timeout, other exception) returns [errorText, command] and adds exactly one
\* to failures; a successful one returns [output, command] and leaves failures.
ShellErrorTexts ==
    { "Shell Command Error (<returncode>): <output>", "Shell Command Timeout",
      "Shell Command Error: <e>\n Traceback:<traceback>" }

C12_FailureCounted ==
    [][\A command \in Commands, run \in {"ok", "nonzero", "timeout", "exception"} :
          Code_ExecuteCommandBody(command, run) =>
              /\ Len(cret'.out) = 2
              /\ cret'.out[2] = command
              /\ IF run = "ok"
                 THEN cret'.out[1] = "<output>" /\ failures' = failures
                 ELSE cret'.out[1] \in ShellErrorTexts /\ failures' = failures + 1]_vars

C12_Witness ==
    /\ cret.tool = "ExecuteCommand"
    /\ cret.out = <<"Shell Command Timeout", cret.arg>>
    /\ failures = 2

\* the path WriteFile writes to and the content it writes, after the swap
TargetPath(path, content) == IF Len(path) > Len(content) THEN content ELSE path
TargetContent(path, content) == IF Len(path) > Len(content) THEN path ELSE content

\* C14: WriteFile never modifies an existing file: after the call every file
\* that existed has the content it had, whether the new content is identical
\* (unchanged message) or not; a file is written only where none existed.
C14_ExistingFileKept ==
    [][\A path \in WPaths, content \in WContents, io \in WriteIO, upload_ok \in BOOLEAN :
          Code_WriteFileAndSendToUserBody(path, content, io, upload_ok) =>
              LET p == TargetPath(path, content)
                  c == TargetContent(path, content)
              IN  /\ \A q \in FsNames : fs[q] # None => fs'[q] = fs[q]
                  /\ \A q \in FsNames : fs'[q] # fs[q] => (q = p /\ fs[q] = None)
                  /\ (fs[p] = Some(c) /\ io = "ok") =>
                         cret'.out \in {<<UnchangedText>>, <<DiffEmptyText>>}]_vars

C14_Witness ==
    /\ cret.tool = "WriteFileAndSendToUser"
    /\ cret.arg = << <<"f">>, <<"b", "\n", "c">> >>
    /\ cret.out = <<PatchText>>
    /\ fs[<<"f">>] = Some(<<"a">>)

\* C15 as stated: for every existing file and every new content unequal to the
\* file's content the result is a non-empty unified diff, never an 'unchanged'
\* or 'diff empty' message (here: when reading the file succeeds).
C15_AlwaysDiff ==
    [][\A path \in WPaths, content \in WContents, upload_ok \in BOOLEAN :
          LET p == TargetPath(path, content)
              c == TargetContent(path, content)
          IN  (/\ Code_WriteFileAndSendToUserBody(path, content, "ok", upload_ok)
               /\ fs[p] # None
               /\ fs[p] # Some(c)) => cret'.out = <<PatchText>>]_vars

\* C15 (amended): for every existing file that is read without error and every
\* new content unequal to the file's content, the result is a non-empty unified
\* diff when the two contents differ in some line, and the 'unchanged' or
\* 'diff empty' message when they differ only in a trailing newline or in line
\* terminators.
SameLines(a, b) == splitlines(a) = splitlines(b)

C15_DiffUnlessSameLines ==
    [][\A path \in WPaths, content \in WContents, upload_ok \in BOOLEAN :
          LET p == TargetPath(path, content)
              c == TargetContent(path, content)
          IN  (/\ Code_WriteFileAndSendToUserBody(path, content, "ok", upload_ok)
               /\ fs[p] # None
               /\ fs[p] # Some(c)) =>
                   IF SameLines(fs[p][1], c)
                   THEN cret'.out \in {<<UnchangedText>>, <<DiffEmptyText>>}
                   ELSE cret'.out = <<PatchText>>]_vars

C15_Witness ==
    /\ cret.tool = "WriteFileAndSendToUser"
    /\ cret.arg = << <<"f">>, <<"a", "\n">> >>
    /\ cret.out = <<DiffEmptyText>>
    /\ fs[<<"f">>] = Some(<<"a">>)

\* C18: selected_paper is None initially, becomes non-None only by a
\* SelectPaper call whose lookup returned an entry, and is never reset to None;
\* a SelectPaper call that fails (HTTP error, unknown id) leaves it unchanged;
\* so Researcher and GetCurrentPaper are available exactly when some
\* SelectPaper has succeeded earlier.
C18_SelectionMonotone ==
    /\ []((ResearcherPred <=> ever_selected) /\ (GetCurrentPaperPred <=> ever_selected))
    /\ [][/\ selected_paper # None => selected_paper' # None
          /\ selected_paper' # selected_paper =>
                (aret'.tool = "SelectPaper" /\ aret'.lookup \in {"entry", "entry_bad_terms"})
          /\ \A arxiv_id \in ArxivIds, load_full_text \in BOOLEAN, page \in Pages,
                lookup \in {"http_error", "no_entries", "malformed_entry"} :
                SelectPaperBody(arxiv_id, load_full_text, lookup, page) =>
                    selected_paper' = selected_paper]_vars

C18_Witness ==
    /\ aret.tool = "SelectPaper"
    /\ aret.lookup = "no_entries"
    /\ selected_paper = Some([id |-> <<"2">>])
    /\ ResearcherPred

\* C19: Researcher or GetCurrentPaper invoked while no paper is selected
\* returns its 'no paper selected' string, makes no external call, raises
\* nothing and leaves the agent state unchanged.
C19_RecheckNoPaper ==
    [][(/\ selected_paper = None
        /\ \/ \E question \in Texts, call_ok \in BOOLEAN : ResearcherBody(question, call_ok)
           \/ GetCurrentPaperBody) =>
            /\ aret'.out \in {NoPaperText, NoCurrentPaperText}
            /\ aret'.out = NoPaperText <=> aret'.tool = "Researcher"
            /\ invocation'.calls = 0
            /\ ~invocation'.raised
            /\ <<selected_paper, paper_content>>' = <<selected_paper, paper_content>>]_vars

C19_Witness ==
    /\ aret = [tool |-> "Researcher", out |-> NoPaperText]
    /\ selected_paper = None
    /\ invocation = Invocation("Researcher", 0, FALSE)

\* the tools that upload files to the user
UploadTools == {"RespondToUser", "WriteFileAndSendToUser"}

\* C16: no exception propagates out of a tool method to the host, except on
\* the file-upload failure path: a failure of an external call or of local
\* I/O yields a returned textual error result.
C16_NoExceptionEscapes ==
    invocation.raised => invocation.tool \in UploadTools

\* C17 as stated: every tool makes 0 or 1 outbound external calls per
\* invocation, SelectPaper and Scout included.
C17_AtMostOneCall ==
    invocation.calls \in {0, 1}

\* C17 (amended): every tool other than SelectPaper, Scout and GoogleTrends
\* makes at most one outbound external call per invocation; SelectPaper and
\* GoogleTrends make at most two, Scout at most five; a call that failed is
\* not made again.
C17_CallsPerInvocation ==
    /\ invocation.calls <= (CASE invocation.tool = "Scout" -> PageCap
                              [] invocation.tool \in {"SelectPaper", "GoogleTrends"} -> 2
                              [] OTHER -> 1)
    /\ (invocation.tool = "SelectPaper" /\ aret.lookup \in {"http_error", "no_entries"})
          => invocation.calls = 1
    /\ (invocation.tool = "Scout" /\ Len(search_results) > 0)
          => invocation.calls <= Len(search_results) + 1

C17_Witness ==
    /\ invocation = Invocation("Scout", PageCap, FALSE)
    /\ search_results = <<1, 2, 3, 4, 5>>

\* C20: when two dispatches of a gated tool pass the predicate before either
\* body runs, a body that runs in a state where its predicate is false
\* re-checks its guard and does not change the session state (an upload that
\* fails may still raise).
C20_StaleDispatchIsSafe ==
    [][(/\ pending # <<>>
        /\ pending' = Tail(pending)
        /\ ~PredOf(Head(pending))) =>
            /\ <<asked_followup, start_time, notepad>>' = <<asked_followup, start_time, notepad>>
            /\ <<can_call_external_model, failures, globals>>'
                  = <<can_call_external_model, failures, globals>>]_vars

\* the notes of a sequence, each followed by its newline, in order
RECURSIVE JoinNotes(_)
JoinNotes(notes) ==
    IF notes = <<>> THEN <<>> ELSE Head(notes) \o <<"\n">> \o JoinNotes(Tail(notes))

C22_HookReturnsContext ==
    hook # NoHook =>
        /\ hook.out # None
        /\ hook.calls = 0 => hook.out = Some(hook.in_ctx)
        /\ hook.calls = 1 =>
              /\ ~compress_next_context
              /\ hook.out \in { Some(<<hook.in_ctx[1], SummaryBlock>>),
                                 Some(with_failure_note(hook.in_ctx)) }

\* C23: WriteFileAndSendToUser attempts the upload only when the WriteFile step
\* did not fail: with an "Error writing file" result it returns that result,
\* makes no upload call and does not raise.
C23_UploadOnlyAfterSuccessfulWrite ==
    (cret.tool = "WriteFileAndSendToUser" /\ cret.out = <<WriteErrorText>>)
        => (invocation.calls = 0 /\ ~invocation.raised)


\* C24: every ReadFile call that returns a "ReadFile Error" result (the file
\* does not exist, or reading raised) increases failures by exactly one, and a
\* successful read leaves failures unchanged.
C24_ReadFileCountsEveryError ==
    [][\A path \in Paths, file \in {"missing", "ok", "unreadable"} :
          Code_ReadFileBody(path, file) =>
              failures' = IF file \in {"missing", "unreadable"}
                          THEN failures + 1 ELSE failures]_vars


C26_SecretWrittenOnce ==
    [][StoredKey # None => StoredKey' = StoredKey]_vars


\* the predicates of the tools gated by has_full_tool_access all hold
FullAccessToolsAvailable ==
    /\ PerplexitySearchPred /\ TakeNotePred /\ ReadNotesPred /\ WebSearchPred
    /\ SearchNewsArticlesPred /\ FindRelatedKeywordsPred /\ GoogleTrendsPred
    /\ WriteFilePred /\ ReadFilePred /\ ExecuteCommandPred

\* C27: asked_followup never goes from true back to false, so the tools gated
\* by has_full_tool_access, once available, stay available in every later
\* state, also in the state right after each RespondToUser invocation.
C27_FullAccessIsPermanent ==
    /\ [][asked_followup => asked_followup']_vars
    /\ [][FullAccessToolsAvailable => FullAccessToolsAvailable']_vars
    /\ [][(\E files \in FileLists, upload_ok \in BOOLEAN :
              RespondToUserBody(files, upload_ok)) => FullAccessToolsAvailable']_vars

C27_Witness ==
    /\ responds >= 2
    /\ last.tool = "RespondToUser"
    /\ asked_followup
    /\ FullAccessToolsAvailable


\* C28: in every reachable state at least one tool's availability predicate
\* is true: RespondToUser while asked_followup is false, the full-access tools
\* once it is true.
C28_SomeToolAvailable ==
    /\ RespondToUserPred \/ (\E p \in FullAccessPreds : p)
    /\ ~asked_followup => RespondToUserPred
    /\ asked_followup => FullAccessToolsAvailable

C28_Witness ==
    /\ asked_followup
    /\ ~RespondToUserPred
    /\ last.tool = "RespondToUser"
    /\ FullAccessToolsAvailable


\* C29: with gated dispatch, can_call_external_model = true implies
\* failures >= 2; failures never decreases and can_call_external_model never
\* returns to false, so AskForPermissionToUseExternalModel is invoked at most
\* once (each invocation starts without the permission and ends with it, for
\* good) and AskForHelp is never available before two failures were recorded.
C29_PermissionNeedsTwoFailures ==
    /\ [](can_call_external_model = TRUE => failures >= 2)
    /\ [](AskForHelpPred => failures >= 2)
    /\ [][failures' >= failures]_vars
    /\ [][can_call_external_model = TRUE => can_call_external_model' = TRUE]_vars
    /\ [][(\E reason \in Texts : AskForPermissionToUseExternalModelBody(reason)) =>
             /\ can_call_external_model = FALSE
             /\ can_call_external_model' = TRUE
             /\ ~AskForPermissionToUseExternalModelPred']_vars
    /\ [](can_call_external_model = TRUE =>
             ~ENABLED AskForPermissionToUseExternalModel)

C29_Witness ==
    /\ can_call_external_model = TRUE
    /\ failures = 2
    /\ AskForHelpPred
    /\ cret.tool = "AskForHelp"


\* C30: after any sequence of SelectPaper calls paper_content is null or the
\* text loaded for the currently selected paper, so Researcher never puts into
\* its prompt content that was loaded for a previously selected paper.
C30_ContentOfCurrentPaper ==
    paper_content # None =>
        /\ selected_paper # None
        /\ content_loaded_for = Some(selected_paper[1].id)


\* C13: Research ExecuteCommand applies, to a command containing "pip" or
\* "apk", a timeout that is never shorter than the requested one, and to any
\* other command the requested timeout unchanged.
LooksLikeInstall(command) ==
    \E i \in 1..Len(command) : \E j \in i..Len(command) :
        SubSeq(command, i, j) \in { <<"p", "i", "p">>, <<"a", "p", "k">> }

C13_TimeoutNeverShortened ==
    last.tool = "ExecuteCommand" =>
        IF LooksLikeInstall(last.command)
        THEN last.applied >= last.timeout
        ELSE last.applied = last.timeout

====
